---- MODULE Spec2Model ----
(***************************************************************************)
(* Model of the clip production pipeline of ai-video-clipper:              *)
(*   backend/src/db.ts                    the JSON job/clip store          *)
(*   backend/src/services/aiProvider.ts   transcribe / suggestClips        *)
(*   backend/src/services/videoProcessor.ts  extractAudio/createClip/cleanup*)
(*   backend/src/routes/video.ts          POST /analyze, GET /job,         *)
(*                                        GET /clip/.../download,          *)
(*                                        processVideoAsync,               *)
(*                                        POST /upload                     *)
(* Times are whole seconds.  An optional number of the request body is a   *)
(* sequence: <<>> when the field is missing, <<v>> when it is v.           *)
(***************************************************************************)
EXTENDS Integers, Sequences, FiniteSets, TLC

\* ------------------------------------------------------------------ bounds
\* largest timeStartSec of an enumerated time window
MaxStartSec == 2
\* largest length (timeEndSec - timeStartSec) of an enumerated time window
MaxWindowSec == 45
\* custom clipLengthMinSec / clipLengthMaxSec range over -MaxCustomSec..MaxCustomSec
MaxCustomSec == 6
\* number of jobs submitted in the pipeline model
MaxJobs == 2
\* number of concurrently served clip download requests
MaxReqs == 2
\* number of files uploaded to temp/uploads
MaxUploads == 2
\* number of rows inserted into an otherwise empty clip store
MaxDbClips == 3
\* largest startSec of a row inserted into that store
MaxDbStartSec == 2
\* getJobStatus calls of the client in flight at the same time
MaxPolls == 2

VARIABLES
  jobs,         \* db.ts dbData.jobs: sequence of job rows
  clips,        \* db.ts dbData.clips: sequence of clip rows
  envOk,        \* process.env selects a provider that can be constructed
  runPc,        \* per job id: position of its processVideoAsync run
  audioFile,    \* per job id: temp/audio/<jobId>.mp3 exists
  clipFiles,    \* per clip id: state of temp/clips/<clipId>.mp4
  reqs,         \* per request slot: position and locals of a download handler
  segPc,        \* position of a stand-alone transcribe/suggestClips run
  segOptions,   \* its ClipOptions
  segTranscript,\* its transcript
  segClips,     \* its result
  uploadDir,    \* temp/uploads: the stored files, each with its real duration
  sub,          \* position and locals of a POST /upload or POST /analyze handler
  dbQuery,      \* the last getClipsByJobId call on the store and its result
  dbFile,       \* data/clippilot.json: the store as last written by save()
  segRerun,     \* result of a second suggestClips call on the same input
  render,       \* one download request for a clip that has to be rendered
  client        \* App.tsx: the state of the component and its polls in flight

vars == <<jobs, clips, envOk, runPc, audioFile, clipFiles, reqs,
          segPc, segOptions, segTranscript, segClips, uploadDir, sub, dbQuery,
          dbFile, segRerun, render, client>>

sysVars == <<jobs, clips, envOk, runPc, audioFile, clipFiles, reqs, dbFile>>
segVars == <<segPc, segOptions, segTranscript, segClips>>
subVars == <<uploadDir, sub>>

\* ------------------------------------------------------------ small helpers
Min(a, b) == IF a < b THEN a ELSE b
Max(a, b) == IF a > b THEN a ELSE b

\* JavaScript `x || d` on an optional number: missing and 0 are falsy
OrDefault(x, d) == IF x = <<>> THEN d ELSE IF x[1] = 0 THEN d ELSE x[1]

\* ---------------------------------------------------------- aiProvider.ts
\* const segmentDuration = 5
segmentDuration == 5

\* the hard cap of the while loop: clipIndex < 10
MaxClipIndex_Eleven == 10 + 1
MaxClipIndex == 10

\* GeminiProvider.transcribe: one mock segment per 5 s of the window
\* for (i = 0; i < duration / segmentDuration; i++)
RECURSIVE transcribeLoop(_, _, _, _)
transcribeLoop(startSec, endSec, i, acc) ==
  IF i * segmentDuration < endSec - startSec
  THEN LET start == startSec + i * segmentDuration
           end   == Min(start + segmentDuration, endSec)
       IN transcribeLoop(startSec, endSec, i + 1,
                         Append(acc, [startSec |-> start, endSec |-> end]))
  ELSE acc

transcribe(startSec, endSec) == transcribeLoop(startSec, endSec, 0, <<>>)

\* the switch on options.clipLengthPreset
minDurationOf(options) ==
  CASE options.clipLengthPreset = "short"  -> 10
    [] options.clipLengthPreset = "medium" -> 25
    [] options.clipLengthPreset = "long"   -> 45
    [] options.clipLengthPreset = "custom" -> OrDefault(options.clipLengthMinSec, 10)

maxDurationOf(options) ==
  CASE options.clipLengthPreset = "short"  -> 25
    [] options.clipLengthPreset = "medium" -> 45
    [] options.clipLengthPreset = "long"   -> 90
    [] options.clipLengthPreset = "custom" -> OrDefault(options.clipLengthMaxSec, 60)

\* const duration = Math.min(maxDuration, Math.max(minDuration, timeEndSec - currentStart))
spanDuration_NoMax(options, currentStart) ==
  Max(minDurationOf(options), options.timeEndSec - currentStart)

spanDuration(options, currentStart) ==
  Min(maxDurationOf(options),
      Max(minDurationOf(options), options.timeEndSec - currentStart))

\* transcript.segments.filter(seg => seg.startSec < endSec && seg.endSec > currentStart)
relevantSegments(transcript, currentStart, endSec) ==
  SelectSeq(transcript, LAMBDA seg : seg.startSec < endSec /\ seg.endSec > currentStart)

\* GeminiProvider.generateCaptions: each segment becomes a caption with the
\* segment's own startSec and endSec
generateCaptions(segments) ==
  [k \in 1..Len(segments) |->
     [startSec |-> segments[k].startSec, endSec |-> segments[k].endSec]]

\* currentStart = endSec + 5
nextStart_NoGap(endSec) == endSec - 5
nextStart(endSec) == endSec + 5

\* the while loop of GeminiProvider.suggestClips
RECURSIVE suggestLoop(_, _, _, _, _)
suggestLoop(transcript, options, currentStart, clipIndex, acc) ==
  IF currentStart < options.timeEndSec /\ clipIndex < MaxClipIndex
  THEN LET duration == spanDuration(options, currentStart)
           endSec   == currentStart + duration
           relevant == relevantSegments(transcript, currentStart, endSec)
           clip     == [id          |-> clipIndex + 1,
                        startSec    |-> currentStart,
                        endSec      |-> endSec,
                        durationSec |-> duration,
                        captions    |-> IF options.captionsEnabled
                                        THEN generateCaptions(relevant)
                                        ELSE <<>>]
       IN suggestLoop(transcript, options, nextStart(endSec), clipIndex + 1,
                      IF Len(relevant) > 0 THEN Append(acc, clip) ELSE acc)
  ELSE acc

suggestClips(transcript, options) ==
  suggestLoop(transcript, options, options.timeStartSec, 0, <<>>)

\* the locals currentStart and clipIndex when the while loop is left
RECURSIVE suggestLoopExit(_, _, _)
suggestLoopExit(options, currentStart, clipIndex) ==
  IF currentStart < options.timeEndSec /\ clipIndex < MaxClipIndex
  THEN suggestLoopExit(options,
                       nextStart(currentStart + spanDuration(options, currentStart)),
                       clipIndex + 1)
  ELSE [currentStart |-> currentStart, clipIndex |-> clipIndex]

\* ------------------------------------------------------------------ db.ts
\* save: fs.writeFileSync(DB_PATH, JSON.stringify(dbData)): the file holds the
\* whole store as it is in memory at the call
save(js, cs) == [jobs |-> js, clips |-> cs]

\* createJob: dbData.jobs.push(newJob); save()
createJob(js, job) == Append(js, job)

\* getJob: dbData.jobs.find(j => j.id === id); <<>> stands for undefined
getJob(js, id) ==
  LET found == SelectSeq(js, LAMBDA j : j.id = id)
  IN IF Len(found) = 0 THEN <<>> ELSE <<found[1]>>

\* createClip: dbData.clips.push(newClip); save()
createClip_Replace(cs, clip) == <<clip>>
createClip(cs, clip) == Append(cs, clip)

\* Array.prototype.sort((a, b) => a.startSec - b.startSec) is stable:
\* insert each element after the elements that do not exceed it
RECURSIVE insertByStart(_, _, _)
insertByStart(cs, sorted, i) ==
  IF sorted = <<>> THEN <<i>>
  ELSE IF cs[Head(sorted)].startSec <= cs[i].startSec
       THEN <<Head(sorted)>> \o insertByStart(cs, Tail(sorted), i)
       ELSE <<i>> \o sorted

RECURSIVE sortByStart(_, _)
sortByStart(cs, idxs) ==
  IF idxs = <<>> THEN <<>>
  ELSE LET n == Len(idxs)
       IN insertByStart(cs, sortByStart(cs, SubSeq(idxs, 1, n - 1)), idxs[n])

\* getClipsByJobId, as the row objects it returns: the positions in dbData.clips
\* (filter and sort copy the array, not the rows)
RECURSIVE filterByJob(_, _, _)
filterByJob(cs, jobId, i) ==
  IF i > Len(cs) THEN <<>>
  ELSE (IF cs[i].jobId = jobId THEN <<i>> ELSE <<>>) \o filterByJob(cs, jobId, i + 1)

\* the filter without the sort
getClipRefsByJobId_Unsorted(cs, jobId) == filterByJob(cs, jobId, 1)

getClipRefsByJobId(cs, jobId) == sortByStart(cs, filterByJob(cs, jobId, 1))

getClipsByJobId(cs, jobId) ==
  LET refs == getClipRefsByJobId(cs, jobId)
  IN [k \in 1..Len(refs) |-> cs[refs[k]]]

\* --------------------------------------------------- routes/video.ts inputs
JobIds == 1..MaxJobs
ReqIds == 1..MaxReqs
PollIds == 1..MaxPolls

\* the request bodies submitted in the pipeline model
MkOptions(s, e, p, mn, mx, cap) ==
  [timeStartSec |-> s, timeEndSec |-> e, clipLengthPreset |-> p,
   clipLengthMinSec |-> mn, clipLengthMaxSec |-> mx, captionsEnabled |-> cap]

SysOptions ==
  { MkOptions(0, 12, "custom", <<>>, <<5>>, TRUE),    \* two clips
    MkOptions(0, 12, "custom", <<>>, <<-6>>, TRUE) }  \* no span overlaps a segment

\* the request bodies of the jobs whose clips are downloaded: two clips
DownloadOptions == { MkOptions(0, 12, "custom", <<>>, <<5>>, TRUE) }

\* metadata.durationSec reported by ffprobe for the submitted sources
SysDurations == {12}

\* clip ids are clip-<N>, N = clipIndex + 1
ClipIds == 1..MaxClipIndex

\* the time range check of POST /analyze
validTimeRange(options, durationSec) ==
  ~(options.timeStartSec >= options.timeEndSec \/ options.timeEndSec > durationSec)

\* the clips a run persists: suggestClips on the transcript of the job's window
runClips(options) ==
  suggestClips(transcribe(options.timeStartSec, options.timeEndSec), options)

\* the row handed to createClip by processVideoAsync
clipRow(jobId, clip) ==
  [id |-> clip.id, jobId |-> jobId, startSec |-> clip.startSec,
   endSec |-> clip.endSec, durationSec |-> clip.durationSec,
   clipFilePath |-> <<>>]

\* for (const clip of clips) createClip({...}) restricted to the first n clips
RECURSIVE saveClips(_, _, _, _)
saveClips(cs, jobId, newClips, n) ==
  IF n = 0 THEN cs
  ELSE createClip(saveClips(cs, jobId, newClips, n - 1), clipRow(jobId, newClips[n]))

\* what GET /job/:jobId answers
jobStatusResponse(jobId) ==
  LET job == getJob(jobs, jobId)
  IN IF job = <<>> THEN [code |-> 404]
     ELSE [code |-> 200, status |-> job[1].status,
           clips |-> getClipsByJobId(clips, jobId)]

\* ------------------------------------------------------------------- Init
noResp == [code |-> 0, state |-> "none", jobId |-> 0]
noReq == [pc |-> "new", jobId |-> 0, clipId |-> 0, row |-> 0, encoded |-> FALSE,
          resp |-> noResp]
noFile == [state |-> "absent", jobId |-> 0]

SysInit ==
  /\ jobs = <<>>
  /\ clips = <<>>
  /\ dbFile = save(<<>>, <<>>)
  /\ runPc = [j \in JobIds |-> "none"]
  /\ audioFile = [j \in JobIds |-> FALSE]
  /\ clipFiles = [c \in ClipIds |-> noFile]
  /\ reqs = [r \in ReqIds |-> noReq]

SegOff ==
  /\ segPc = "off"
  /\ segOptions = <<>>
  /\ segTranscript = <<>>
  /\ segClips = <<>>
  /\ segRerun = <<>>

\* no render request for a single clip is modelled
noRender == [pc |-> "off"]
RenderOff == render = noRender

\* the useState initial values of App; no getJobStatus call is in flight
noPoll == [pc |-> "free", jobId |-> 0, clips |-> <<>>]
noClient == [selectedSource |-> FALSE, jobId |-> 0, isAnalyzing |-> FALSE,
             clips |-> <<>>, error |-> FALSE, success |-> FALSE,
             sent |-> 0, pending |-> FALSE,
             polls |-> [p \in PollIds |-> noPoll]]
ClientOff == client = noClient

\* no submission handler is running, temp/uploads is empty
noSubResp == [code |-> 0, errorCode |-> "none"]
noSource == [type |-> "none", fileId |-> <<>>, urlDurationSec |-> 0]
noSub == [pc |-> "idle", route |-> "none", source |-> noSource, options |-> <<>>,
          videoPath |-> <<>>, durationSec |-> 0, downloaded |-> FALSE,
          probed |-> FALSE, jobId |-> 0, resp |-> noSubResp]

SubOff ==
  /\ uploadDir = {}
  /\ sub = noSub

\* getClipsByJobId has not been called
DbOff == dbQuery = <<>>

Init ==
  /\ envOk \in BOOLEAN
  /\ SysInit
  /\ SegOff
  /\ SubOff
  /\ DbOff
  /\ RenderOff
  /\ ClientOff

\* -------------------------------------------------- POST /api/video/analyze
\* transcribe and suggestClips are async functions without an await inside:
\* from the resolution of extractAudio to the return of processVideoAsync the
\* run continues in microtasks, and no other callback runs in between
turnFree == \A j \in JobIds : runPc[j] \notin {"transcribing", "suggesting"}

\* validation, createJob, and processVideoAsync up to its first await
Analyze(options, durationSec) ==
  /\ turnFree
  /\ Len(jobs) < MaxJobs
  /\ validTimeRange(options, durationSec)
  /\ LET jobId == Len(jobs) + 1
     IN /\ jobs' = createJob(jobs, [id |-> jobId, options |-> options,
                                   videoDurationSec |-> durationSec,
                                   status |-> "processing"])
        /\ runPc' = [runPc EXCEPT ![jobId] = "extracting"]
  /\ dbFile' = save(jobs', clips)
  /\ UNCHANGED <<clips, envOk, audioFile, clipFiles, reqs>>
  /\ UNCHANGED <<segVars, subVars, dbQuery>>
  /\ UNCHANGED <<segRerun, render, client>>

\* ------------------------------------------------------- processVideoAsync
\* extractAudio resolves; createAIProvider(); transcribe is called
ExtractAudioOk(jobId) ==
  /\ turnFree
  /\ runPc[jobId] = "extracting"
  /\ audioFile' = [audioFile EXCEPT ![jobId] = TRUE]
  /\ runPc' = [runPc EXCEPT ![jobId] = IF envOk THEN "transcribing" ELSE "caught"]
  /\ UNCHANGED <<jobs, clips, envOk, clipFiles, reqs>>
  /\ UNCHANGED <<segVars, subVars, dbQuery, dbFile>>
  /\ UNCHANGED <<segRerun, render, client>>

\* extractAudio rejects: catch block
ExtractAudioFail_StopsAll(jobId) ==
  /\ turnFree
  /\ runPc[jobId] = "extracting"
  /\ runPc' = [j \in JobIds |-> IF runPc[j] = "none" THEN "none" ELSE "caught"]
  /\ UNCHANGED <<jobs, clips, envOk, audioFile, clipFiles, reqs>>
  /\ UNCHANGED <<segVars, subVars, dbQuery, dbFile>>
  /\ UNCHANGED <<segRerun, render, client>>

ExtractAudioFail_Persists(jobId) ==
  /\ turnFree
  /\ runPc[jobId] = "extracting"
  /\ runPc' = [runPc EXCEPT ![jobId] = "caught"]
  /\ LET job == getJob(jobs, jobId)[1]
         cl  == runClips(job.options)
     IN /\ clips' = saveClips(clips, jobId, cl, Len(cl))
        /\ dbFile' = IF cl = <<>> THEN dbFile ELSE save(jobs, clips')
  /\ UNCHANGED <<jobs, envOk, audioFile, clipFiles, reqs>>
  /\ UNCHANGED <<segVars, subVars, dbQuery>>
  /\ UNCHANGED <<segRerun, render, client>>

ExtractAudioFail(jobId) ==
  /\ turnFree
  /\ runPc[jobId] = "extracting"
  /\ runPc' = [runPc EXCEPT ![jobId] = "caught"]
  /\ UNCHANGED <<jobs, clips, envOk, audioFile, clipFiles, reqs>>
  /\ UNCHANGED <<segVars, subVars, dbQuery, dbFile>>
  /\ UNCHANGED <<segRerun, render, client>>

\* transcribe resolves; suggestClips is called
TranscribeDone_Retry(jobId) ==
  /\ runPc[jobId] = "transcribing"
  /\ runPc' = [runPc EXCEPT ![jobId] = IF clips = <<>> THEN "suggesting" ELSE "extracting"]
  /\ UNCHANGED <<jobs, clips, envOk, audioFile, clipFiles, reqs>>
  /\ UNCHANGED <<segVars, subVars, dbQuery, dbFile>>
  /\ UNCHANGED <<segRerun, render, client>>

TranscribeDone(jobId) ==
  /\ runPc[jobId] = "transcribing"
  /\ runPc' = [runPc EXCEPT ![jobId] = "suggesting"]
  /\ UNCHANGED <<jobs, clips, envOk, audioFile, clipFiles, reqs>>
  /\ UNCHANGED <<segVars, subVars, dbQuery, dbFile>>
  /\ UNCHANGED <<segRerun, render, client>>

\* videoProcessor.cleanup(audioPath)
cleanup(af, jobId) == [af EXCEPT ![jobId] = FALSE]

\* suggestClips resolves; every clip is saved; cleanup; normal return
PersistOk(jobId) ==
  /\ runPc[jobId] = "suggesting"
  /\ LET job == getJob(jobs, jobId)[1]
         cl  == runClips(job.options)
     IN /\ clips' = saveClips(clips, jobId, cl, Len(cl))
        /\ dbFile' = IF cl = <<>> THEN dbFile ELSE save(jobs, clips')
  /\ audioFile' = cleanup(audioFile, jobId)
  /\ runPc' = [runPc EXCEPT ![jobId] = "completed"]
  /\ UNCHANGED <<jobs, envOk, clipFiles, reqs>>
  /\ UNCHANGED <<segVars, subVars, dbQuery>>
  /\ UNCHANGED <<segRerun, render, client>>

\* suggestClips resolves; save() of the n-th createClip throws (the row is
\* already pushed); catch block
PersistFail(jobId) ==
  /\ runPc[jobId] = "suggesting"
  /\ LET job == getJob(jobs, jobId)[1]
         cl  == runClips(job.options)
     IN \E n \in 1..Len(cl) :
          /\ clips' = saveClips(clips, jobId, cl, n)
          /\ dbFile' = IF n = 1 THEN dbFile
                       ELSE save(jobs, saveClips(clips, jobId, cl, n - 1))
  /\ runPc' = [runPc EXCEPT ![jobId] = "caught"]
  /\ UNCHANGED <<jobs, envOk, audioFile, clipFiles, reqs>>
  /\ UNCHANGED <<segVars, subVars, dbQuery>>
  /\ UNCHANGED <<segRerun, render, client>>

\* ------------------------------- GET /api/video/clip/:jobId/:clipId/download
\* the clip ids asked for by the download requests of the pipeline model
ReqClipIds == {1}

\* clips.find(c => c.id === clipId) on getClipsByJobId(jobId): 0 when undefined
findClip(cs, jobId, clipId) ==
  LET found == SelectSeq(getClipRefsByJobId(cs, jobId), LAMBDA i : cs[i].id = clipId)
  IN IF Len(found) = 0 THEN 0 ELSE found[1]

\* fs.existsSync(path): true of a file that is still being written as well
existsSync(path) == clipFiles[path].state # "absent"

\* !clip.clipFilePath || !fs.existsSync(clip.clipFilePath)
mustRender(cs, row) ==
  IF cs[row].clipFilePath = <<>> THEN TRUE
  ELSE ~existsSync(cs[row].clipFilePath[1])

\* res.sendFile(path): the bytes that are in the file now
sendFile(files, path) ==
  [code |-> 200, state |-> files[path].state, jobId |-> files[path].jobId]

\* request slots are handed out in order: a new request takes the lowest
\* slot that has not served a request yet
arrives(r) ==
  /\ reqs[r].pc = "new"
  /\ \A r2 \in ReqIds : r2 < r => reqs[r2].pc # "new"

\* no clip row: 404 NOT_FOUND
DownloadNotFound(r, jobId, clipId) ==
  /\ turnFree
  /\ arrives(r)
  /\ findClip(clips, jobId, clipId) = 0
  /\ reqs' = [reqs EXCEPT ![r].pc = "done",
                          ![r].resp = [code |-> 404, state |-> "none", jobId |-> 0]]
  /\ UNCHANGED <<jobs, clips, envOk, runPc, audioFile, clipFiles>>
  /\ UNCHANGED <<segVars, subVars, dbQuery, dbFile>>
  /\ UNCHANGED <<segRerun, render, client>>

\* the row has a clipFilePath and the file exists: stream it
DownloadCached(r, jobId, clipId) ==
  /\ turnFree
  /\ arrives(r)
  /\ LET row == findClip(clips, jobId, clipId)
     IN /\ row # 0
        /\ ~mustRender(clips, row)
        /\ reqs' = [reqs EXCEPT ![r] = [pc |-> "done", jobId |-> jobId,
                                        clipId |-> clipId, row |-> row,
                                        encoded |-> FALSE,
                                        resp |-> sendFile(clipFiles, clips[row].clipFilePath[1])]]
  /\ UNCHANGED <<jobs, clips, envOk, runPc, audioFile, clipFiles>>
  /\ UNCHANGED <<segVars, subVars, dbQuery, dbFile>>
  /\ UNCHANGED <<segRerun, render, client>>

\* otherwise videoProcessor.createClip is called with outputPath
\* temp/clips/<clipId>.mp4 and awaited; ffmpeg starts writing that file
DownloadRender(r, jobId, clipId) ==
  /\ turnFree
  /\ arrives(r)
  /\ LET row == findClip(clips, jobId, clipId)
     IN /\ row # 0
        /\ mustRender(clips, row)
        /\ getJob(jobs, jobId) # <<>>
        /\ reqs' = [reqs EXCEPT ![r] = [pc |-> "encoding", jobId |-> jobId,
                                        clipId |-> clipId, row |-> row,
                                        encoded |-> TRUE,
                                        resp |-> noResp]]
        /\ clipFiles' = [clipFiles EXCEPT ![clipId] = [state |-> "partial", jobId |-> jobId]]
  /\ UNCHANGED <<jobs, clips, envOk, runPc, audioFile>>
  /\ UNCHANGED <<segVars, subVars, dbQuery, dbFile>>
  /\ UNCHANGED <<segRerun, render, client>>

\* another handler's ffmpeg is still writing the same output path
otherWriter(r) ==
  \E r2 \in ReqIds \ {r} : reqs[r2].pc = "encoding" /\ reqs[r2].clipId = reqs[r].clipId

\* clip.clipFilePath = outputPath, on the row object of dbData.clips
setClipFilePath_OnCopy(cs, row, path) == cs
setClipFilePath(cs, row, path) == [cs EXCEPT ![row].clipFilePath = <<path>>]

\* createClip resolves: clip.clipFilePath = outputPath; res.sendFile
RenderOk(r) ==
  /\ turnFree
  /\ reqs[r].pc = "encoding"
  /\ LET c == reqs[r].clipId
     IN /\ clipFiles' = [clipFiles EXCEPT ![c] =
                           [state |-> IF otherWriter(r) THEN "partial" ELSE "complete",
                            jobId |-> reqs[r].jobId]]
        /\ clips' = setClipFilePath(clips, reqs[r].row, c)
        /\ reqs' = [reqs EXCEPT ![r].pc = "done", ![r].resp = sendFile(clipFiles', c)]
  /\ UNCHANGED <<jobs, envOk, runPc, audioFile>>
  /\ UNCHANGED <<segVars, subVars, dbQuery, dbFile>>
  /\ UNCHANGED <<segRerun, render, client>>

\* createClip rejects: 500 INTERNAL; the output file stays as ffmpeg left it
RenderFail_SetsPath(r) ==
  /\ turnFree
  /\ reqs[r].pc = "encoding"
  /\ clips' = setClipFilePath(clips, reqs[r].row, reqs[r].clipId)
  /\ reqs' = [reqs EXCEPT ![r].pc = "done",
                          ![r].resp = [code |-> 500, state |-> "none", jobId |-> 0]]
  /\ UNCHANGED <<jobs, envOk, runPc, audioFile, clipFiles>>
  /\ UNCHANGED <<segVars, subVars, dbQuery, dbFile>>
  /\ UNCHANGED <<segRerun, render, client>>

RenderFail(r) ==
  /\ turnFree
  /\ reqs[r].pc = "encoding"
  /\ reqs' = [reqs EXCEPT ![r].pc = "done",
                          ![r].resp = [code |-> 500, state |-> "none", jobId |-> 0]]
  /\ UNCHANGED <<jobs, clips, envOk, runPc, audioFile, clipFiles>>
  /\ UNCHANGED <<segVars, subVars, dbQuery, dbFile>>
  /\ UNCHANGED <<segRerun, render, client>>

\* server.ts express.static('/temp'): a direct read of temp/clips/<clipId>.mp4
staticRead(path) ==
  IF existsSync(path) THEN sendFile(clipFiles, path)
  ELSE [code |-> 404, state |-> "none", jobId |-> 0]

\* ------------------------------------------------------------------- Next
Next ==
  \/ \E o \in DownloadOptions, d \in SysDurations : Analyze(o, d)
  \/ \E j \in JobIds : ExtractAudioOk(j)
  \/ \E j \in JobIds : ExtractAudioFail(j)
  \/ \E j \in JobIds : TranscribeDone(j)
  \/ \E j \in JobIds : PersistOk(j)
  \/ \E j \in JobIds : PersistFail(j)
  \/ \E r \in ReqIds, j \in JobIds, c \in ReqClipIds : DownloadNotFound(r, j, c)
  \/ \E r \in ReqIds, j \in JobIds, c \in ReqClipIds : DownloadCached(r, j, c)
  \/ \E r \in ReqIds, j \in JobIds, c \in ReqClipIds : DownloadRender(r, j, c)
  \/ \E r \in ReqIds : RenderOk(r)
  \/ \E r \in ReqIds : RenderFail(r)

Spec == Init /\ [][Next]_vars

\* the submissions and their processVideoAsync runs alone, no download request
PipelineNext ==
  \/ \E o \in SysOptions, d \in SysDurations : Analyze(o, d)
  \/ \E j \in JobIds : ExtractAudioOk(j)
  \/ \E j \in JobIds : ExtractAudioFail(j)
  \/ \E j \in JobIds : TranscribeDone(j)
  \/ \E j \in JobIds : PersistOk(j)
  \/ \E j \in JobIds : PersistFail(j)

PipelineSpec == Init /\ [][PipelineNext]_vars

\* --------------------------------------- stand-alone segmentation runs
\* the optional custom bounds a request body can carry
CustomVals == {<<>>} \cup { <<v>> : v \in (-MaxCustomSec)..MaxCustomSec }

\* request options that pass AnalyzeRequestSchema and the time range check
\* (timeStartSec >= 0, timeEndSec > timeStartSec)
SegOptionSpace ==
  { MkOptions(s, s + w, p, <<>>, <<>>, cap) :
      s \in 0..MaxStartSec, w \in 1..MaxWindowSec, p \in {"short", "medium", "long"},
      cap \in BOOLEAN }
  \cup
  { MkOptions(s, s + w, "custom", mn, mx, cap) :
      s \in 0..MaxStartSec, w \in 1..MaxWindowSec, mn \in CustomVals, mx \in CustomVals,
      cap \in BOOLEAN }

\* a five-minute window with the short preset
LongWindowOptions == MkOptions(0, 300, "short", <<>>, <<>>, TRUE)

SegInit ==
  /\ envOk = TRUE
  /\ SysInit
  /\ segPc = "transcribing"
  /\ segOptions \in SegOptionSpace \cup {LongWindowOptions}
  /\ segTranscript = <<>>
  /\ segClips = <<>>
  /\ segRerun = <<>>
  /\ SubOff
  /\ DbOff
  /\ RenderOff
  /\ ClientOff

\* const transcript = await aiProvider.transcribe({startSec, endSec})
SegTranscribe ==
  /\ segPc = "transcribing"
  /\ segTranscript' = transcribe(segOptions.timeStartSec, segOptions.timeEndSec)
  /\ segPc' = "suggesting"
  /\ UNCHANGED <<segOptions, segClips>>
  /\ UNCHANGED <<sysVars, subVars, dbQuery>>
  /\ UNCHANGED <<segRerun, render, client>>

\* const clips = await aiProvider.suggestClips({transcript, options})
SegSuggest ==
  /\ segPc = "suggesting"
  /\ segClips' = suggestClips(segTranscript, segOptions)
  /\ segPc' = "done"
  /\ UNCHANGED <<segOptions, segTranscript>>
  /\ UNCHANGED <<sysVars, subVars, dbQuery>>
  /\ UNCHANGED <<segRerun, render, client>>

SegNext == SegTranscribe \/ SegSuggest

SegSpec == SegInit /\ [][SegNext]_vars

\* --------------------------------------- the scores of suggestClips
\* Math.random(), in tenths
RandomVals == {0, 9}

\* scores of one clip, in hundredths, from three Math.random() calls:
\* engagement random*0.5+0.5, clarity random*0.3+0.7, hook random*0.4+0.6
scoresOf(r) ==
  [engagement |-> r[1] * 5 + 50, clarity |-> r[2] * 3 + 70, hook |-> r[3] * 4 + 60]

\* the random numbers drawn for one clip
ScoreDraws == RandomVals \X RandomVals \X RandomVals

\* the clips of suggestClips with their scores, for the numbers drawn
withScores(cl, draws) ==
  [k \in 1..Len(cl) |->
     [id |-> cl[k].id, startSec |-> cl[k].startSec, endSec |-> cl[k].endSec,
      scores |-> scoresOf(draws[k])]]

\* the request options of the scored runs: one clip, two clips
ScoredOptions ==
  { MkOptions(0, 12, "short", <<>>, <<>>, TRUE),
    MkOptions(0, 45, "short", <<>>, <<>>, TRUE) }

ScoredInit ==
  /\ envOk = TRUE
  /\ SysInit
  /\ segPc = "transcribing"
  /\ segOptions \in ScoredOptions
  /\ segTranscript = <<>>
  /\ segClips = <<>>
  /\ segRerun = <<>>
  /\ SubOff
  /\ DbOff
  /\ RenderOff
  /\ ClientOff

\* suggestClips({transcript, options}) with its scores
ScoredSuggest ==
  /\ segPc = "suggesting"
  /\ LET cl == suggestClips(segTranscript, segOptions)
     IN \E draws \in [1..Len(cl) -> ScoreDraws] : segClips' = withScores(cl, draws)
  /\ segPc' = "scored"
  /\ UNCHANGED <<segOptions, segTranscript, segRerun>>
  /\ UNCHANGED <<sysVars, subVars, dbQuery, render, client>>

\* a second suggestClips call with the same transcript and options
ScoredSuggestAgain ==
  /\ segPc = "scored"
  /\ LET cl == suggestClips(segTranscript, segOptions)
     IN \E draws \in [1..Len(cl) -> ScoreDraws] : segRerun' = withScores(cl, draws)
  /\ segPc' = "rescored"
  /\ UNCHANGED <<segOptions, segTranscript, segClips>>
  /\ UNCHANGED <<sysVars, subVars, dbQuery, render, client>>

ScoredNext == SegTranscribe \/ ScoredSuggest \/ ScoredSuggestAgain

ScoredSpec == ScoredInit /\ [][ScoredNext]_vars

\* ------------------------------------- POST /api/video/upload and /analyze
\* if (metadata.durationSec > 3600)
maxDurationSec == 3600

\* durations of the submitted videos
SubDurations == {12, 5000}

\* a stored file name is <fileId><ext>: the two id characters (the ids have
\* one length and share their first character) followed by the extension
\* character
extMp4 == 0
idHead == 1
UploadIds == { <<idHead, n>> : n \in 1..MaxUploads }
UploadNames == { id \o <<extMp4>> : id \in UploadIds }

\* source.fileId of a request: the id of an upload, the first character of
\* an id, or the empty string
SubFileIds == {<<>>, <<idHead>>} \cup UploadIds

SubSources ==
  { [type |-> "file", fileId |-> f, urlDurationSec |-> 0] : f \in SubFileIds }
  \cup
  { [type |-> "url", fileId |-> <<>>, urlDurationSec |-> d] : d \in SubDurations }

\* time windows of the submitted requests: <<timeStartSec, timeEndSec>>
SubWindows == { <<0, 12>>, <<100, 50>>, <<0, 50>>, <<-1, 12>> }

SubOptions == { MkOptions(w[1], w[2], "custom", <<>>, <<5>>, TRUE) : w \in SubWindows }

\* AnalyzeRequestSchema: a file source has a non-empty fileId (the url of a
\* url source is never empty here); timeStartSec and timeEndSec are
\* z.number().min(0)
schemaOk(source, options) ==
  /\ source.type = "file" => source.fileId # <<>>
  /\ options.timeStartSec >= 0
  /\ options.timeEndSec >= 0

\* String.prototype.startsWith
startsWith(name, prefix) ==
  /\ Len(prefix) <= Len(name)
  /\ SubSeq(name, 1, Len(prefix)) = prefix

\* fs.readdirSync(uploadDir).filter(f => f.startsWith(source.fileId))
possibleFiles(dir, fileId) == { f \in dir : startsWith(f.name, fileId) }

\* videoProcessor.cleanup on a file of temp/uploads
cleanupUpload(dir, name) == { f \in dir : f.name # name }

subIdle == sub.pc \in {"idle", "done"}

subAnswer(code, errorCode) == [code |-> code, errorCode |-> errorCode]

\* multer stores the file under a fresh name; the handler runs up to
\* await getVideoMetadata(req.file.path)
UploadStart(name, durationSec) ==
  /\ subIdle
  /\ \A f \in uploadDir : f.name # name
  /\ uploadDir' = uploadDir \cup {[name |-> name, durationSec |-> durationSec]}
  /\ sub' = [noSub EXCEPT !.pc = "uploadProbe", !.route = "upload",
                          !.videoPath = name, !.durationSec = durationSec]
  /\ UNCHANGED <<sysVars, segVars, dbQuery>>
  /\ UNCHANGED <<segRerun, render, client>>

\* the probe resolves: the duration check and the response
UploadProbeOk ==
  /\ sub.pc = "uploadProbe"
  /\ IF sub.durationSec > maxDurationSec
     THEN /\ uploadDir' = cleanupUpload(uploadDir, sub.videoPath)
          /\ sub' = [sub EXCEPT !.pc = "done", !.probed = TRUE,
                                !.resp = subAnswer(400, "VIDEO_TOO_LONG")]
     ELSE /\ uploadDir' = uploadDir
          /\ sub' = [sub EXCEPT !.pc = "done", !.probed = TRUE,
                                !.resp = subAnswer(200, "none")]
  /\ UNCHANGED <<sysVars, segVars, dbQuery>>
  /\ UNCHANGED <<segRerun, render, client>>

\* the probe rejects: catch block of POST /upload
UploadProbeFail ==
  /\ sub.pc = "uploadProbe"
  /\ sub' = [sub EXCEPT !.pc = "done", !.resp = subAnswer(500, "INTERNAL")]
  /\ UNCHANGED <<uploadDir, sysVars, segVars, dbQuery>>
  /\ UNCHANGED <<segRerun, render, client>>

\* POST /analyze whose body fails AnalyzeRequestSchema.parse
AnalyzeInvalidBody(source, options) ==
  /\ subIdle
  /\ ~schemaOk(source, options)
  /\ sub' = [noSub EXCEPT !.pc = "done", !.route = "analyze", !.source = source,
                          !.options = options,
                          !.resp = subAnswer(400, "INVALID_SOURCE")]
  /\ UNCHANGED <<uploadDir, sysVars, segVars, dbQuery>>
  /\ UNCHANGED <<segRerun, render, client>>

\* POST /analyze with a file source no stored file name starts with
AnalyzeFileNotFound(source, options) ==
  /\ subIdle
  /\ schemaOk(source, options)
  /\ source.type = "file"
  /\ possibleFiles(uploadDir, source.fileId) = {}
  /\ sub' = [noSub EXCEPT !.pc = "done", !.route = "analyze", !.source = source,
                          !.options = options,
                          !.resp = subAnswer(404, "INVALID_SOURCE")]
  /\ UNCHANGED <<uploadDir, sysVars, segVars, dbQuery>>
  /\ UNCHANGED <<segRerun, render, client>>

\* POST /analyze with a file source: videoPath = possibleFiles[0] (readdirSync
\* does not specify the order of the names), up to await getVideoMetadata
AnalyzeFile(source, options) ==
  /\ subIdle
  /\ schemaOk(source, options)
  /\ source.type = "file"
  /\ \E f \in possibleFiles(uploadDir, source.fileId) :
       sub' = [noSub EXCEPT !.pc = "probe", !.route = "analyze", !.source = source,
                            !.options = options, !.videoPath = f.name,
                            !.durationSec = f.durationSec]
  /\ UNCHANGED <<uploadDir, sysVars, segVars, dbQuery>>
  /\ UNCHANGED <<segRerun, render, client>>

\* POST /analyze with a url source, up to await downloadFromUrl
AnalyzeUrl(source, options) ==
  /\ subIdle
  /\ schemaOk(source, options)
  /\ source.type = "url"
  /\ sub' = [noSub EXCEPT !.pc = "download", !.route = "analyze", !.source = source,
                          !.options = options]
  /\ UNCHANGED <<uploadDir, sysVars, segVars, dbQuery>>
  /\ UNCHANGED <<segRerun, render, client>>

\* source.url of a url request: not the name of a local file
remoteUrl == <<0>>

\* temp/downloads/<jobId>.mp4, the file downloadFromUrl writes and returns
downloadsDir == 2
downloadPath(jobId) == <<downloadsDir, jobId, extMp4>>

\* downloadFromUrl resolves, up to await getVideoMetadata
AnalyzeDownloadOk ==
  /\ sub.pc = "download"
  /\ sub' = [sub EXCEPT !.pc = "probe", !.downloaded = TRUE,
                        !.videoPath = downloadPath(Len(jobs) + 1),
                        !.durationSec = sub.source.urlDurationSec]
  /\ UNCHANGED <<uploadDir, sysVars, segVars, dbQuery>>
  /\ UNCHANGED <<segRerun, render, client>>

\* downloadFromUrl rejects
AnalyzeDownloadFail ==
  /\ sub.pc = "download"
  /\ sub' = [sub EXCEPT !.pc = "done", !.resp = subAnswer(400, "DOWNLOAD_FAILED")]
  /\ UNCHANGED <<uploadDir, sysVars, segVars, dbQuery>>
  /\ UNCHANGED <<segRerun, render, client>>

\* getVideoMetadata rejects: catch block of POST /analyze
AnalyzeProbeFail ==
  /\ sub.pc = "probe"
  /\ sub' = [sub EXCEPT !.pc = "done", !.resp = subAnswer(500, "INTERNAL")]
  /\ UNCHANGED <<uploadDir, sysVars, segVars, dbQuery>>
  /\ UNCHANGED <<segRerun, render, client>>

\* getVideoMetadata resolves and the time range is rejected
AnalyzeBadRange ==
  /\ sub.pc = "probe"
  /\ ~validTimeRange(sub.options, sub.durationSec)
  /\ sub' = [sub EXCEPT !.pc = "done", !.probed = TRUE,
                        !.resp = subAnswer(400, "INVALID_SOURCE")]
  /\ UNCHANGED <<uploadDir, sysVars, segVars, dbQuery>>
  /\ UNCHANGED <<segRerun, render, client>>

\* getVideoMetadata resolves and the time range passes: createJob,
\* processVideoAsync up to its first await, res.json
AnalyzeAccepted ==
  /\ sub.pc = "probe"
  /\ Len(jobs) < MaxJobs
  /\ validTimeRange(sub.options, sub.durationSec)
  /\ LET jobId == Len(jobs) + 1
     IN /\ jobs' = createJob(jobs, [id |-> jobId, options |-> sub.options,
                                   sourcePath |-> IF sub.source.type = "file"
                                                  THEN sub.videoPath ELSE <<>>,
                                   sourceUrl |-> IF sub.source.type = "url"
                                                 THEN remoteUrl ELSE <<>>,
                                   videoDurationSec |-> sub.durationSec,
                                   status |-> "processing"])
        /\ runPc' = [runPc EXCEPT ![jobId] = "extracting"]
        /\ sub' = [sub EXCEPT !.pc = "done", !.probed = TRUE, !.jobId = jobId,
                              !.resp = subAnswer(200, "none")]
  /\ dbFile' = save(jobs', clips)
  /\ UNCHANGED <<uploadDir, clips, envOk, audioFile, clipFiles, reqs, segVars, dbQuery>>
  /\ UNCHANGED <<segRerun, render, client>>

\* const videoPath = job.sourcePath || job.sourceUrl
renderSource(job) ==
  IF job.sourcePath # <<>> THEN job.sourcePath ELSE job.sourceUrl

\* GET /clip/:jobId/:clipId/download for a clip of the job just accepted,
\* whose run saved it: createClip is called with inputPath videoPath;
\* pipelinePath is the videoPath that POST /analyze probed and handed to
\* processVideoAsync
SubClipRequest ==
  /\ render = noRender
  /\ sub.pc = "done"
  /\ sub.jobId # 0
  /\ render' = [pc |-> "encoding", jobId |-> sub.jobId,
                inputPath |-> renderSource(getJob(jobs, sub.jobId)[1]),
                pipelinePath |-> sub.videoPath]
  /\ UNCHANGED <<sysVars, segVars, subVars, dbQuery, segRerun, client>>

SubInit ==
  /\ envOk = TRUE
  /\ SysInit
  /\ SegOff
  /\ SubOff
  /\ DbOff
  /\ RenderOff
  /\ ClientOff

SubNext ==
  \/ \E n \in UploadNames, d \in SubDurations : UploadStart(n, d)
  \/ UploadProbeOk
  \/ UploadProbeFail
  \/ \E src \in SubSources, o \in SubOptions : AnalyzeInvalidBody(src, o)
  \/ \E src \in SubSources, o \in SubOptions : AnalyzeFileNotFound(src, o)
  \/ \E src \in SubSources, o \in SubOptions : AnalyzeFile(src, o)
  \/ \E src \in SubSources, o \in SubOptions : AnalyzeUrl(src, o)
  \/ AnalyzeDownloadOk
  \/ AnalyzeDownloadFail
  \/ AnalyzeProbeFail
  \/ AnalyzeBadRange
  \/ SubClipRequest
  \/ AnalyzeAccepted

SubSpec == SubInit /\ [][SubNext]_vars

\* ------------------------------------------------ the clip store on its own
\* start times of the inserted rows
DbStarts == 0..MaxDbStartSec

\* createClip called with a row of job jobId that starts at startSec
DbCreateClip(jobId, startSec) ==
  /\ Len(clips) < MaxDbClips
  /\ clips' = createClip(clips, clipRow(jobId,
                 [id |-> Len(clips) + 1, startSec |-> startSec,
                  endSec |-> startSec + segmentDuration,
                  durationSec |-> segmentDuration]))
  /\ dbFile' = save(jobs, clips')
  /\ UNCHANGED <<jobs, envOk, runPc, audioFile, clipFiles, reqs>>
  /\ UNCHANGED <<segVars, subVars, dbQuery>>
  /\ UNCHANGED <<segRerun, render, client>>

\* getClipsByJobId(jobId) is called: the store it was called on and its result
DbGetClips(jobId) ==
  /\ dbQuery' = <<[jobId |-> jobId, store |-> clips,
                   result |-> getClipsByJobId(clips, jobId)]>>
  /\ UNCHANGED <<sysVars, segVars, subVars>>
  /\ UNCHANGED <<segRerun, render, client>>

DbInit ==
  /\ envOk = TRUE
  /\ SysInit
  /\ SegOff
  /\ SubOff
  /\ DbOff
  /\ RenderOff
  /\ ClientOff

DbNext ==
  \/ \E j \in JobIds, s \in DbStarts : DbCreateClip(j, s)
  \/ \E j \in JobIds : DbGetClips(j)

DbSpec == DbInit /\ [][DbNext]_vars

\* --------------------- one download request that has to render its clip
\* startSec and endSec of the stored clip rows a request can ask for; rows with
\* endSec <= startSec or endSec beyond the source are stored by the save loop
\* as suggestClips returns them
RenderTimes == {0, 4, 5, 10, 15}

\* videoDurationSec of the job
RenderDurationSec == 12

\* z.enum(['9:16', '16:9', '1:1', 'auto']): the aspect ratios a row can record
AspectRatios == {"9:16", "16:9", "1:1", "auto"}

\* width and height of the source video as ffprobe reports them
SourceSize == <<640, 360>>

\* switch (aspectRatio): a scale-and-crop filter and an output size per ratio,
\* the command unchanged by default
applyAspectRatio_Swapped(command, aspectRatio) ==
  CASE aspectRatio = "9:16" -> [command EXCEPT !.videoFilters = <<1920, 1080>>,
                                               !.size = <<1920, 1080>>]
    [] aspectRatio = "16:9" -> [command EXCEPT !.videoFilters = <<1080, 1920>>,
                                               !.size = <<1080, 1920>>]
    [] aspectRatio = "1:1"  -> [command EXCEPT !.videoFilters = <<1080, 1080>>,
                                               !.size = <<1080, 1080>>]
    [] OTHER -> command

applyAspectRatio(command, aspectRatio) ==
  CASE aspectRatio = "9:16" -> [command EXCEPT !.videoFilters = <<1080, 1920>>,
                                               !.size = <<1080, 1920>>]
    [] aspectRatio = "16:9" -> [command EXCEPT !.videoFilters = <<1920, 1080>>,
                                               !.size = <<1920, 1080>>]
    [] aspectRatio = "1:1"  -> [command EXCEPT !.videoFilters = <<1080, 1080>>,
                                               !.size = <<1080, 1080>>]
    [] OTHER -> command

\* the ffmpeg command built by videoProcessor.createClip: seekInput, duration,
\* then applyAspectRatio unless the ratio is auto (quality settings set
\* bitrates and codecs only)
createClipCommand(startSec, endSec, aspectRatio) ==
  LET command == [seekInput |-> startSec, duration |-> endSec - startSec,
                  videoFilters |-> <<>>, size |-> <<>>]
  IN IF aspectRatio # "auto" THEN applyAspectRatio(command, aspectRatio)
     ELSE command

\* width and height of the file ffmpeg writes for a command
outputSize(command) ==
  IF command.size = <<>> THEN SourceSize ELSE command.size

RenderInit ==
  /\ envOk = TRUE
  /\ SysInit
  /\ SegOff
  /\ SubOff
  /\ DbOff
  /\ ClientOff
  /\ render \in [pc : {"new"}, startSec : RenderTimes, endSec : RenderTimes,
                 aspectRatio : AspectRatios, sourcePresent : BOOLEAN,
                 command : {<<>>}, outSize : {<<>>}, resp : {noSubResp}]

\* the window of the row lies within the source and is not empty
windowOk(r) ==
  /\ 0 <= r.startSec
  /\ r.startSec < r.endSec
  /\ r.endSec <= RenderDurationSec

\* the handler finds the row without an existing artifact and the job, takes
\* videoPath = job.sourcePath || job.sourceUrl and awaits
\* videoProcessor.createClip: neither the window nor the source is looked at
ClipRequest ==
  /\ render.pc = "new"
  /\ render' = [render EXCEPT !.pc = "encoding",
                               !.command = createClipCommand(render.startSec,
                                             render.endSec, render.aspectRatio)]
  /\ UNCHANGED <<sysVars, segVars, subVars, dbQuery, segRerun, client>>

\* ffmpeg ends without an error: the file is sent. It needs its input; what it
\* does with a window outside the input is up to ffmpeg
CreateClipResolves ==
  /\ render.pc = "encoding"
  /\ render.sourcePresent
  /\ render' = [render EXCEPT !.pc = "done", !.resp = subAnswer(200, "none"),
                               !.outSize = outputSize(render.command)]
  /\ UNCHANGED <<sysVars, segVars, subVars, dbQuery, segRerun, client>>

\* ffmpeg reports an error (missing input, bad window, transcoder error):
\* createClip rejects and the catch block answers
CreateClipRejects ==
  /\ render.pc = "encoding"
  /\ render' = [render EXCEPT !.pc = "done", !.resp = subAnswer(500, "INTERNAL")]
  /\ UNCHANGED <<sysVars, segVars, subVars, dbQuery, segRerun, client>>

RenderNext == ClipRequest \/ CreateClipResolves \/ CreateClipRejects

RenderSpec == RenderInit /\ [][RenderNext]_vars

\* ------------------------------------------------- frontend/src/App.tsx
\* the component with its backend: the submissions are those of the client
clientVars == <<segVars, subVars, dbQuery, segRerun, render>>

\* SourcePanel onSourceSelected (the panel is disabled while analyzing)
SelectSource ==
  /\ ~client.isAnalyzing
  /\ ~client.selectedSource
  /\ client' = [client EXCEPT !.selectedSource = TRUE]
  /\ UNCHANGED <<sysVars, clientVars>>

\* const canAnalyze = selectedSource && !isAnalyzing && !error
canAnalyze == client.selectedSource /\ ~client.isAnalyzing /\ ~client.error

\* handleAnalyze up to await videoApi.analyzeVideo
HandleAnalyze ==
  /\ canAnalyze
  /\ client.sent < MaxJobs
  /\ client' = [client EXCEPT !.error = FALSE, !.success = FALSE,
                               !.isAnalyzing = TRUE, !.clips = <<>>,
                               !.sent = @ + 1, !.pending = TRUE]
  /\ UNCHANGED <<sysVars, clientVars>>

\* POST /analyze handles the request of the client
ClientAnalyze(options, durationSec) ==
  /\ client.pending
  /\ Len(jobs) < client.sent
  /\ Analyze(options, durationSec)

\* analyzeVideo resolves: setJobId(response.jobId)
AnalyzeResolves ==
  /\ client.pending
  /\ Len(jobs) = client.sent
  /\ client' = [client EXCEPT !.pending = FALSE, !.jobId = Len(jobs)]
  /\ UNCHANGED <<sysVars, clientVars>>

\* analyzeVideo rejects (no answer from the backend): the catch block
AnalyzeRejects ==
  /\ client.pending
  /\ Len(jobs) < client.sent
  /\ client' = [client EXCEPT !.pending = FALSE, !.isAnalyzing = FALSE,
                               !.error = TRUE]
  /\ UNCHANGED <<sysVars, clientVars>>

\* the effect's interval exists while jobId is set and isAnalyzing is true
polling == client.jobId # 0 /\ client.isAnalyzing

\* the interval fires: pollStatus calls videoApi.getJobStatus(jobId)
PollTick(p) ==
  /\ polling
  /\ client.polls[p].pc = "free"
  /\ \A p2 \in PollIds : p2 < p => client.polls[p2].pc # "free"
  /\ client' = [client EXCEPT !.polls[p] = [pc |-> "sent", jobId |-> client.jobId,
                                            clips |-> <<>>]]
  /\ UNCHANGED <<sysVars, clientVars>>

\* the clips of a GET /job/:jobId answer as the client keeps them: no
\* selected field
responseClips(jobId) ==
  LET rows == jobStatusResponse(jobId).clips
  IN [k \in 1..Len(rows) |-> [id |-> rows[k].id, selected |-> FALSE]]

\* GET /job/:jobId answers the call
JobStatus(p) ==
  /\ turnFree
  /\ client.polls[p].pc = "sent"
  /\ client' = [client EXCEPT !.polls[p].pc = "answered",
                               !.polls[p].clips = responseClips(client.polls[p].jobId)]
  /\ UNCHANGED <<sysVars, clientVars>>

\* getJobStatus resolves in pollStatus: with clips, setClips,
\* setIsAnalyzing(false), setSuccess; without, nothing
PollResolves(p) ==
  /\ client.polls[p].pc = "answered"
  /\ client' = IF Len(client.polls[p].clips) > 0
                THEN [client EXCEPT !.clips = client.polls[p].clips,
                                    !.isAnalyzing = FALSE, !.success = TRUE,
                                    !.polls[p] = noPoll]
                ELSE [client EXCEPT !.polls[p] = noPoll]
  /\ UNCHANGED <<sysVars, clientVars>>

\* handleReset (the button is disabled while analyzing)
HandleReset ==
  /\ ~client.isAnalyzing
  /\ client' = [client EXCEPT !.selectedSource = FALSE, !.clips = <<>>,
                               !.jobId = 0, !.error = FALSE, !.success = FALSE,
                               !.isAnalyzing = FALSE]
  /\ UNCHANGED <<sysVars, clientVars>>

\* handleClipSelect(clipId, selected)
HandleClipSelect(clipId, selected) ==
  /\ \E k \in 1..Len(client.clips) :
       client.clips[k].id = clipId /\ client.clips[k].selected # selected
  /\ client' = [client EXCEPT !.clips =
                   [k \in 1..Len(client.clips) |->
                      IF client.clips[k].id = clipId
                      THEN [client.clips[k] EXCEPT !.selected = selected]
                      ELSE client.clips[k]]]
  /\ UNCHANGED <<sysVars, clientVars>>

ClientInit == Init

ClientBackend ==
  \/ \E o \in SysOptions, d \in SysDurations : ClientAnalyze(o, d)
  \/ \E j \in JobIds : ExtractAudioOk(j)
  \/ \E j \in JobIds : ExtractAudioFail(j)
  \/ \E j \in JobIds : TranscribeDone(j)
  \/ \E j \in JobIds : PersistOk(j)
  \/ \E j \in JobIds : PersistFail(j)

ClientPolling ==
  \/ \E p \in PollIds : PollTick(p)
  \/ \E p \in PollIds : JobStatus(p)
  \/ \E p \in PollIds : PollResolves(p)

ClientUser ==
  \/ SelectSource
  \/ HandleAnalyze
  \/ AnalyzeResolves
  \/ AnalyzeRejects
  \/ HandleReset
  \/ \E c \in ReqClipIds, b \in BOOLEAN : HandleClipSelect(c, b)

ClientNext == ClientBackend \/ ClientPolling \/ ClientUser

ClientSpec == ClientInit /\ [][ClientNext]_vars

\* the interval fires while it exists, the backend answers every
\* getJobStatus call, and every answer reaches the client
ClientFairSpec == ClientSpec /\ WF_vars(ClientPolling)

\* ================================================================ claims
\* the status a reader of GET /job/:jobId sees for an existing job
statusOf(jobId) == jobStatusResponse(jobId).status

\* the run of the job has ended (normal return or catch block)
runEnded(jobId) == runPc[jobId] \in {"completed", "caught"}

\* C1: once a job has been created its pipeline run brings its status to
\* ready or failed; stated on the final result: when the run of a job has
\* ended, the job's status is ready or failed.
C1_RunEndsReadyOrFailed ==
  \A j \in JobIds : runEnded(j) => statusOf(j) \in {"ready", "failed"}

\* C2: if a pipeline stage of a job fails (the run ends in its catch block),
\* the job's status is failed.
C2_FailureRecorded ==
  \A j \in JobIds : runPc[j] = "caught" => statusOf(j) = "failed"

\* C3: at most one render (createClip call) is in flight per clip identity
\* <<jobId, clipId>> at any time.
C3_OneRenderInFlight ==
  \A r1, r2 \in ReqIds :
    (/\ reqs[r1].pc = "encoding" /\ reqs[r2].pc = "encoding"
     /\ reqs[r1].jobId = reqs[r2].jobId /\ reqs[r1].clipId = reqs[r2].clipId)
    => r1 = r2

\* C4: the temporary audio file of a job is released on every exit path of
\* the run: once the run has ended the file does not exist.
C4_AudioReleased ==
  \A j \in JobIds : runEnded(j) => ~audioFile[j]

\* C6: a job whose run produced zero clips completes with status ready and an
\* empty clip list.
C6_ZeroClipsReady ==
  \A j \in JobIds :
    (runPc[j] = "completed" /\ runClips(getJob(jobs, j)[1].options) = <<>>)
    => (statusOf(j) = "ready" /\ jobStatusResponse(j).clips = <<>>)

\* the closed interval covered by a clip, whichever bound is the smaller
clipLo(clip) == Min(clip.startSec, clip.endSec)
clipHi(clip) == Max(clip.startSec, clip.endSec)

\* C8: the clips emitted by segmentation are listed in non-decreasing
\* start-time order and are pairwise non-overlapping.
C8_ClipsOrderedDisjoint ==
  segPc = "done" =>
    \A i, k \in 1..Len(segClips) :
      i < k => /\ segClips[i].startSec <= segClips[k].startSec
               /\ clipHi(segClips[i]) <= clipLo(segClips[k])

\* C8 witness: a segmentation run that emitted at least three clips
C8_Witness == segPc = "done" /\ Len(segClips) >= 3

\* C9: every emitted clip satisfies windowStart <= start < end <= windowEnd.
C9_ClipWithinWindow ==
  segPc = "done" =>
    \A i \in 1..Len(segClips) :
      /\ segOptions.timeStartSec <= segClips[i].startSec
      /\ segClips[i].startSec < segClips[i].endSec
      /\ segClips[i].endSec <= segOptions.timeEndSec

\* C10: a window shorter than minDur whose transcript has a segment yields
\* exactly one clip whose start and end are the window's start and end.
C10_ShortWindowOneClip ==
  (/\ segPc = "done"
   /\ segOptions.timeEndSec - segOptions.timeStartSec < minDurationOf(segOptions)
   /\ Len(segTranscript) > 0)
  => /\ Len(segClips) = 1
     /\ segClips[1].startSec = segOptions.timeStartSec
     /\ segClips[1].endSec = segOptions.timeEndSec

\* C11: every emitted clip has minDur <= duration <= maxDur, except a clip
\* that spans the entire remaining window when that window is shorter than
\* minDur.
C11_DurationInBand ==
  segPc = "done" =>
    \A i \in 1..Len(segClips) :
      LET c == segClips[i]
      IN \/ /\ minDurationOf(segOptions) <= c.durationSec
            /\ c.durationSec <= maxDurationOf(segOptions)
         \/ /\ c.endSec = segOptions.timeEndSec
            /\ segOptions.timeEndSec - c.startSec < minDurationOf(segOptions)

\* C12: every caption attached to a clip lies within the clip:
\* caption.start >= clip.start and caption.end <= clip.end.
C12_CaptionsWithinClip ==
  segPc = "done" =>
    \A i \in 1..Len(segClips) :
      \A k \in 1..Len(segClips[i].captions) :
        /\ segClips[i].captions[k].startSec >= segClips[i].startSec
        /\ segClips[i].captions[k].endSec <= segClips[i].endSec

\* C13: segmentation stops only when the cursor has reached the window end or
\* 10 clips have been emitted (spans without a clip do not use up the cap).
C13_StopsAtEndOrTenClips ==
  segPc = "done" =>
    \/ suggestLoopExit(segOptions, segOptions.timeStartSec, 0).currentStart
         >= segOptions.timeEndSec
    \/ Len(segClips) = MaxClipIndex

\* the download handler r answers in this step, with the given status code
answers(r, code) ==
  reqs[r].pc # "done" /\ reqs'[r].pc = "done" /\ reqs'[r].resp.code = code

\* the download handler r calls videoProcessor.createClip in this step
startsEncode(r) == reqs[r].pc = "new" /\ reqs'[r].pc = "encoding"

\* C14: once a request for a clip has been answered with the clip's file, no
\* later request for the same clip invokes the encoder again.
C14_NoEncodeAfterServed ==
  [][\A r \in ReqIds :
       startsEncode(r) =>
         ~\E r2 \in ReqIds :
            /\ reqs[r2].pc = "done" /\ reqs[r2].resp.code = 200
            /\ reqs[r2].jobId = reqs'[r].jobId /\ reqs[r2].clipId = reqs'[r].clipId]_vars

\* C14 witness: one request rendered a clip and another request for the same
\* clip was served the file without an encode
C14_Witness ==
  \E r1, r2 \in ReqIds :
    /\ reqs[r1].pc = "done" /\ reqs[r1].resp.code = 200 /\ reqs[r1].encoded
    /\ reqs[r2].pc = "done" /\ reqs[r2].resp.code = 200 /\ ~reqs[r2].encoded
    /\ reqs[r1].jobId = reqs[r2].jobId /\ reqs[r1].clipId = reqs[r2].clipId

\* C15: the artifact reference of a clip goes from absent to present exactly
\* once: it changes only in a step of the render path, the render path sets it
\* only while it is absent, and once present it is never changed.
C15_ReferenceSetOnce ==
  [][/\ \A i \in 1..Len(clips) :
          /\ clips[i].clipFilePath # <<>> => clips'[i].clipFilePath = clips[i].clipFilePath
          /\ clips'[i].clipFilePath # clips[i].clipFilePath =>
               \E r \in ReqIds : answers(r, 200) /\ reqs[r].encoded /\ reqs[r].row = i
     /\ \A r \in ReqIds :
          (answers(r, 200) /\ reqs[r].encoded) => clips[reqs[r].row].clipFilePath = <<>>]_vars

\* C16: no reader gets a file that an encode is still writing or that a failed
\* encode left incomplete: neither a download response nor a direct read of
\* temp/clips/<clipId>.mp4.
C16_NoPartialFileRead ==
  /\ \A r \in ReqIds : reqs[r].resp.state # "partial"
  /\ \A c \in ClipIds : staticRead(c).state # "partial"

\* C17: when a render fails, only the requesting handler is answered (500),
\* no job row and no clip row changes (the reference stays absent, siblings
\* are untouched), and a request for the same clip renders again.
C17_RenderFailureIsolated ==
  [][\A r \in ReqIds :
       answers(r, 500) =>
         /\ clips' = clips
         /\ jobs' = jobs
         /\ \A r2 \in ReqIds \ {r} : reqs'[r2] = reqs[r2]
         /\ (clips[reqs[r].row].clipFilePath = <<>> =>
               /\ findClip(clips', reqs[r].jobId, reqs[r].clipId) = reqs[r].row
               /\ mustRender(clips', reqs[r].row))]_vars

\* C17 witness: a render of a clip failed, its reference is absent, and a
\* later request for the same clip has called the encoder again
C17_Witness ==
  \E r1, r2 \in ReqIds :
    /\ r1 < r2
    /\ reqs[r1].pc = "done" /\ reqs[r1].resp.code = 500
    /\ reqs[r2].encoded
    /\ reqs[r1].jobId = reqs[r2].jobId /\ reqs[r1].clipId = reqs[r2].clipId
    /\ clips[reqs[r1].row].clipFilePath = <<>>

\* C18: an /analyze submission whose window has timeStartSec >= timeEndSec is
\* rejected with INVALID_SOURCE before any stage runs: the source is never
\* probed for it and no job row is created.
C18_BadWindowRejectedFirst ==
  (sub.route = "analyze" /\ sub.options.timeStartSec >= sub.options.timeEndSec) =>
    /\ ~sub.probed
    /\ sub.jobId = 0
    /\ sub.pc = "done" => sub.resp.errorCode = "INVALID_SOURCE"

\* C19: a submission whose source was found to be longer than 3600 s is
\* answered VIDEO_TOO_LONG and creates no job row, for an uploaded file and
\* for a remote URL.
C19_TooLongRejected ==
  (sub.pc = "done" /\ sub.probed /\ sub.durationSec > maxDurationSec) =>
    /\ sub.resp.errorCode = "VIDEO_TOO_LONG"
    /\ sub.jobId = 0

\* the rows of job jobId in a store
rowsOfJob(store, jobId) == { i \in 1..Len(store) : store[i].jobId = jobId }

\* C20: whatever the insertion order, getClipsByJobId returns the rows in
\* ascending startSec order, only rows of the requested job, and each of the
\* job's rows once.
C20_SortedClipsOfJob ==
  dbQuery # <<>> =>
    LET q == dbQuery[1]
    IN /\ \A k \in 1..(Len(q.result) - 1) :
            q.result[k].startSec <= q.result[k + 1].startSec
       /\ \A k \in 1..Len(q.result) : q.result[k].jobId = q.jobId
       /\ Len(q.result) = Cardinality(rowsOfJob(q.store, q.jobId))
       /\ \A i \in rowsOfJob(q.store, q.jobId) :
            \E k \in 1..Len(q.result) : q.result[k] = q.store[i]

\* C20 witness: the store held rows of another job and the job's rows were
\* inserted in descending start order when getClipsByJobId was called
C20_Witness ==
  /\ dbQuery # <<>>
  /\ LET q == dbQuery[1]
     IN /\ \E i \in 1..Len(q.store) : q.store[i].jobId # q.jobId
        /\ \E i, k \in rowsOfJob(q.store, q.jobId) :
             i < k /\ q.store[i].startSec > q.store[k].startSec
        /\ Len(q.result) >= 2

\* the rows of a job as a status reader gets them, without the artifact
\* reference
clipsOfJob(cs, jobId) ==
  LET rows == getClipsByJobId(cs, jobId)
  IN [k \in 1..Len(rows) |-> [rows[k] EXCEPT !.clipFilePath = <<>>]]

storedClips(jobId) == clipsOfJob(clips, jobId)

\* what transcribe and suggestClips return for each submitted request body
segmentationOf == [o \in SysOptions |-> runClips(o)]

\* the rows the run of a job hands to createClip, in that order
outputClips(jobId) ==
  LET cl == segmentationOf[getJob(jobs, jobId)[1].options]
  IN [k \in 1..Len(cl) |-> clipRow(jobId, cl[k])]

\* C21: whatever the interleaving of the createJob and createClip calls of
\* concurrently running jobs, the store holds exactly the created entries:
\* every row belongs to a created job, and getClipsByJobId(j) returns the rows
\* created for j so far (all of them once the run has completed), none lost,
\* duplicated or attributed to another job.
C21_StoreHoldsCreatedEntries ==
  /\ \A i \in 1..Len(clips) : clips[i].jobId \in 1..Len(jobs)
  /\ \A j \in 1..Len(jobs) :
       /\ jobs[j].id = j
       /\ Len(storedClips(j)) <= Len(outputClips(j))
       /\ storedClips(j) = SubSeq(outputClips(j), 1, Len(storedClips(j)))
       /\ runPc[j] = "completed" => storedClips(j) = outputClips(j)
       /\ runPc[j] \in {"extracting", "transcribing", "suggesting"} => storedClips(j) = <<>>

\* C21 witness: two jobs ran concurrently (the later job saved its clips
\* first) and both completed with two clips each
C21_Witness ==
  \E a, b \in 1..Len(jobs) :
    /\ a < b
    /\ runPc[a] = "completed" /\ runPc[b] = "completed"
    /\ Len(storedClips(a)) = 2 /\ Len(storedClips(b)) = 2
    /\ \E i, k \in 1..Len(clips) : i < k /\ clips[i].jobId = b /\ clips[k].jobId = a

\* C22: a status reader never sees a partial write: the clip list of a job is
\* either empty or the complete segmentation output.
C22_NoPartialClipList ==
  \A j \in 1..Len(jobs) :
    \/ jobStatusResponse(j).clips = <<>>
    \/ Len(jobStatusResponse(j).clips) = Len(outputClips(j))

\* the run of a job is between hand-off and its end
running(jobId) == runPc[jobId] \in {"extracting", "transcribing", "suggesting"}

\* C23: a failure of one job leaves every other job alone: the step in which
\* the run of job a fails changes neither the position nor the audio file nor
\* the rows of any other job; while a is failed, the next step of a running
\* job b can still be taken; and a job that completed holds exactly the clips
\* it produces when run alone.
C23_FailureIsolatedBetweenJobs ==
  /\ [][\A a \in JobIds :
          (runPc[a] # "caught" /\ runPc'[a] = "caught") =>
            \A b \in JobIds \ {a} :
              /\ runPc'[b] = runPc[b]
              /\ audioFile'[b] = audioFile[b]
              /\ clipsOfJob(clips', b) = clipsOfJob(clips, b)]_vars
  /\ [](\A a, b \in JobIds :
          (a # b /\ runPc[a] = "caught" /\ turnFree) =>
            /\ runPc[b] = "extracting" => ENABLED ExtractAudioOk(b)
            /\ runPc[b] = "completed" => storedClips(b) = outputClips(b))

\* C23 witness: job a failed while job b was running, and b completed with
\* its two clips
C23_Witness ==
  \E a, b \in 1..Len(jobs) :
    /\ a < b
    /\ runPc[a] = "caught" /\ runPc[b] = "completed"
    /\ Len(storedClips(b)) = 2
    /\ Len(storedClips(a)) = 1

\* the position of a run in the stage order
stageNo(pc) ==
  CASE pc = "none" -> 0
    [] pc = "extracting" -> 1
    [] pc = "transcribing" -> 2
    [] pc = "suggesting" -> 3
    [] pc = "completed" -> 4
    [] pc = "caught" -> 4

\* C24: within a job the stages run one after the other in the order audio
\* extraction, transcription, segmentation, clip persistence: a run moves to
\* the next stage or ends, never back and never to a stage twice, and
\* rows of the job are written only by the step that ends segmentation.
C24_StagesSequentialOnce ==
  [][\A j \in JobIds :
       /\ runPc'[j] # runPc[j] =>
            /\ stageNo(runPc'[j]) > stageNo(runPc[j])
            /\ \/ stageNo(runPc'[j]) = stageNo(runPc[j]) + 1
               \/ runPc'[j] = "caught"
       /\ clipsOfJob(clips', j) # clipsOfJob(clips, j) =>
            (runPc[j] = "suggesting" /\ runPc'[j] \in {"completed", "caught"})]_vars

\* C24 witness: a run went through all stages and saved its two clips
C24_Witness ==
  \E j \in 1..Len(jobs) : runPc[j] = "completed" /\ Len(storedClips(j)) = 2 /\ ~audioFile[j]

\* C25: when extraction, provider construction, transcription or
\* segmentation of a job fails, the later stages are skipped: the job has no
\* row in the store then, and the rows of a job whose run has failed never
\* change afterwards.
C25_FailedJobHasNoClips ==
  [][\A j \in JobIds :
       /\ (runPc[j] \in {"extracting", "transcribing"} /\ runPc'[j] = "caught") =>
            clipsOfJob(clips', j) = <<>>
       /\ runPc[j] = "caught" =>
            /\ runPc'[j] = "caught"
            /\ clipsOfJob(clips', j) = clipsOfJob(clips, j)]_vars

\* C25 witness: a job failed before persistence, it has no row, and the
\* store holds the rows of another job
C25_Witness ==
  \E a, b \in 1..Len(jobs) :
    /\ runPc[a] = "caught" /\ storedClips(a) = <<>>
    /\ runPc[b] = "completed" /\ Len(storedClips(b)) = 2

\* C26: every change to a clip record goes through a Job Store operation,
\* which saves: whenever a step changes an existing clip record (the render
\* path records the artifact reference), the record in data/clippilot.json
\* after the step equals the record in memory.
C26_ClipChangesAreSaved ==
  [][\A i \in 1..Len(clips) :
       clips'[i] # clips[i] =>
         /\ i <= Len(dbFile'.clips)
         /\ dbFile'.clips[i] = clips'[i]]_vars

\* C27: two suggestClips runs on the same transcript and the same options
\* return the same clip list with the same engagement, clarity and hook
\* scores.
C27_ScoresDeterministic ==
  segPc = "rescored" => segRerun = segClips

\* C28: for the custom preset the band used by segmentation is the submitted
\* min/max clamped to [5,300]: 5 <= minDur <= maxDur <= 300.
C28_CustomBandClamped ==
  (segPc = "done" /\ segOptions.clipLengthPreset = "custom") =>
    /\ 5 <= minDurationOf(segOptions)
    /\ minDurationOf(segOptions) <= maxDurationOf(segOptions)
    /\ maxDurationOf(segOptions) <= 300

\* C29: for the window [0,300) with the short preset and one transcript
\* segment per 5 s, segmentation emits at most 10 clips, each of a duration in
\* [10,25], with exactly 5 s between a clip's end and the next clip's start;
\* for every input, consecutive emitted clips are at least 5 s apart.
C29_FiveSecondGap ==
  segPc = "done" =>
    /\ \A i \in 1..(Len(segClips) - 1) :
         segClips[i + 1].startSec - segClips[i].endSec >= 5
    /\ segOptions = LongWindowOptions =>
         /\ \A k \in 1..Len(segTranscript) :
              segTranscript[k].endSec - segTranscript[k].startSec = 5
         /\ Len(segClips) <= 10
         /\ \A i \in 1..Len(segClips) :
              10 <= segClips[i].durationSec /\ segClips[i].durationSec <= 25
         /\ \A i \in 1..(Len(segClips) - 1) :
              segClips[i + 1].startSec - segClips[i].endSec = 5

\* C29 witness: the five-minute window was segmented into ten clips
C29_Witness ==
  segPc = "done" /\ segOptions = LongWindowOptions /\ Len(segClips) = 10

\* C30: a render request for a clip with start >= end or a bound outside the
\* source fails with InvalidWindow, one whose source video is gone fails with
\* SourceMissing, and a transcoder error is reported as RenderFailed: three
\* distinct error kinds.
C30_RenderErrorKinds ==
  render.pc = "done" =>
    /\ ~windowOk(render) => render.resp.errorCode = "INVALID_WINDOW"
    /\ (windowOk(render) /\ ~render.sourcePresent) =>
         render.resp.errorCode = "SOURCE_MISSING"
    /\ (windowOk(render) /\ render.sourcePresent /\ render.resp.code # 200) =>
         render.resp.errorCode = "RENDER_FAILED"

\* C31: the render transform is keyed by the clip's recorded aspect ratio:
\* 9:16 gives an output of 1080x1920, 16:9 of 1920x1080, 1:1 of 1080x1080,
\* and auto applies no transform (the output keeps the size of the source).
C31_TransformByAspectRatio ==
  /\ render.pc \in {"encoding", "done"} =>
       /\ render.aspectRatio = "auto" <=> render.command.videoFilters = <<>>
       /\ render.aspectRatio # "auto" =>
            render.command.videoFilters = render.command.size
  /\ (render.pc = "done" /\ render.resp.code = 200) =>
       render.outSize = CASE render.aspectRatio = "9:16" -> <<1080, 1920>>
                          [] render.aspectRatio = "16:9" -> <<1920, 1080>>
                          [] render.aspectRatio = "1:1"  -> <<1080, 1080>>
                          [] render.aspectRatio = "auto" -> SourceSize

\* C31 witness: a clip recorded as 9:16 was rendered and served
C31_Witness ==
  /\ render.pc = "done"
  /\ render.resp.code = 200
  /\ render.aspectRatio = "9:16"
  /\ render.outSize = <<1080, 1920>>

\* C32: the media served for a clip of job J is rendered from J's source and
\* that clip's window: a 200 answer carries the artifact of the requested
\* job, and the file a clip row refers to is never overwritten by the render
\* of another job's clip with the same clip id.
C32_ArtifactOfOwnJob ==
  /\ \A r \in ReqIds :
       (reqs[r].pc = "done" /\ reqs[r].resp.code = 200) =>
         reqs[r].resp.jobId = reqs[r].jobId
  /\ \A i \in 1..Len(clips) :
       (clips[i].clipFilePath # <<>> /\ existsSync(clips[i].clipFilePath[1])) =>
         clipFiles[clips[i].clipFilePath[1]].jobId = clips[i].jobId

\* C33: the polling client stops polling for every job whose pipeline run
\* has ended: after a run that produced clips, one that produced no clip, or
\* one that failed, the client eventually leaves its analyzing state.
C33_PollingEnds ==
  \A j \in JobIds :
    (runEnded(j) /\ client.jobId = j /\ client.isAnalyzing) ~> ~client.isAnalyzing

\* a getJobStatus answer reaches pollStatus in this step
pollArrives ==
  \E p \in PollIds : client.polls[p].pc = "answered" /\ client'.polls[p].pc = "free"

\* C37: a status response that arrives late cannot change the displayed
\* clips: once polling has succeeded or Reset was pressed (the client is not
\* analyzing), a poll response that arrives leaves the clip list and the
\* selection as they are.
C37_LatePollIgnored ==
  [][(~client.isAnalyzing /\ pollArrives) => client'.clips = client.clips]_vars

\* C34: a job submitted with source type file and fileId F is processed from
\* the file that was uploaded under exactly the id F: the file the handler
\* resolves is named F followed by the extension, so a fileId that is only a
\* prefix of an upload's id never resolves to that upload.
C34_FileIdExactMatch ==
  (sub.route = "analyze" /\ sub.source.type = "file" /\ sub.videoPath # <<>>) =>
    sub.videoPath = sub.source.fileId \o <<extMp4>>

\* C35: the on-demand render of a clip reads the same local source file that
\* the job's pipeline probed and analysed, for file-sourced and URL-sourced
\* jobs alike.
C35_RenderReadsPipelineSource ==
  (sub.route = "analyze" /\ render.pc = "encoding") =>
    render.inputPath = render.pipelinePath

\* the number of iterations the while loop of suggestClips performed
loopIterations(options) ==
  suggestLoopExit(options, options.timeStartSec, 0).clipIndex

\* C36: segmentation terminates for every accepted input: for any window and
\* any preset or custom min/max (zero and negative ones too) the loop of
\* suggestClips performs at most 10 iterations and returns at most 10 clips.
C36_LoopBounded ==
  segPc = "done" =>
    /\ loopIterations(segOptions) <= 10
    /\ Len(segClips) <= 10
    /\ Len(segClips) <= loopIterations(segOptions)

\* C36 witness: with a negative custom maximum the cursor moves backwards and
\* never reaches the window's end; the loop was left after its tenth
\* iteration
C36_Witness ==
  /\ segPc = "done"
  /\ segOptions.clipLengthPreset = "custom"
  /\ maxDurationOf(segOptions) < -5
  /\ loopIterations(segOptions) = 10
  /\ suggestLoopExit(segOptions, segOptions.timeStartSec, 0).currentStart
       < segOptions.timeEndSec

====
